---- MODULE Spec2Model ----
(***************************************************************************)
(* getch-rs: the raw-mode session (Getch::new, Getch::getch, Drop) and the *)
(* key decoder (parse_key, parse_csi, parse_utf8_char) of src/src/lib.rs.  *)
(*                                                                         *)
(* A getch call is a sequence of blocking reads of the input source: the   *)
(* bulk read of up to two bytes, then one read per iter.next() of          *)
(* source.bytes().  The decoder functions are operators over the items the *)
(* iterator has delivered so far; they answer "block" when the code would  *)
(* be waiting in the next read.                                            *)
(***************************************************************************)
EXTENDS Integers, Sequences, FiniteSets, TLC

\* The largest number of items source.bytes() delivers within one getch call.
MaxFeed == 4

\* ------------------------------------------------------------------ bytes
Byte == 0..255

ESC == 27

\* What Iterator::next() of source.bytes() yields besides Some(Ok(byte)).
NoneItem == 256
ErrItem == 257

\* Option<u8>::None of the leftover slot and of buf[1] when not read.
NoByte == 258

\* ------------------------------------------------------------------ keys
Key0(t) == [tag |-> t, n |-> 0, bytes |-> << >>]

KeyN(t, v) == [tag |-> t, n |-> v, bytes |-> << >>]

Other(v) == [tag |-> "Other", n |-> 0, bytes |-> v]

NoKey == Key0("NoKey")

\* Result<Key, io::Error> of a decoder function, with the number of iterator
\* items it pulled; "panic" is an unwrap() that failed, "block" a read that
\* has not returned yet.
Ok(k, u) == [st |-> "ok", key |-> k, used |-> u]

IoErr(u) == [st |-> "err", key |-> NoKey, used |-> u]

Panic(u) == [st |-> "panic", key |-> NoKey, used |-> u]

Block == [st |-> "block", key |-> NoKey, used |-> 0]

NoRes == [st |-> "none", key |-> NoKey, used |-> 0]

\* ------------------------------------------------------------------ UTF-8
\* std::str::from_utf8: the width a lead byte announces (0: not a lead byte).
Utf8Width(b) ==
    IF b < 128 THEN 1
    ELSE IF b >= 194 /\ b <= 223 THEN 2
    ELSE IF b >= 224 /\ b <= 239 THEN 3
    ELSE IF b >= 240 /\ b <= 244 THEN 4
    ELSE 0

IsCont(b) == b >= 128 /\ b <= 191

\* The range of the second byte, which excludes overlong forms, surrogates and
\* code points above U+10FFFF.
SecondOk(b0, b1) ==
    IF b0 = 224 THEN b1 >= 160 /\ b1 <= 191
    ELSE IF b0 = 237 THEN b1 >= 128 /\ b1 <= 159
    ELSE IF b0 = 240 THEN b1 >= 144 /\ b1 <= 191
    ELSE IF b0 = 244 THEN b1 >= 128 /\ b1 <= 143
    ELSE IsCont(b1)

\* Length of the well-formed character starting at s[i], 0 when there is none.
CharLen(s, i) ==
    LET w == Utf8Width(s[i]) IN
    IF w = 0 \/ i + w - 1 > Len(s) THEN 0
    ELSE IF w = 1 THEN 1
    ELSE IF ~SecondOk(s[i], s[i + 1]) THEN 0
    ELSE IF \A k \in (i + 2)..(i + w - 1) : IsCont(s[k]) THEN w
    ELSE 0

RECURSIVE ValidFrom(_, _)
ValidFrom(s, i) ==
    IF i > Len(s) THEN TRUE
    ELSE LET n == CharLen(s, i) IN
         IF n = 0 THEN FALSE ELSE ValidFrom(s, i + n)

\* std::str::from_utf8(bytes).is_ok()
IsValidUtf8(s) == ValidFrom(s, 1)

\* st.chars().next().unwrap() of a valid, non-empty s: its first code point.
FirstChar(s) ==
    LET w == Utf8Width(s[1]) IN
    IF w = 1 THEN s[1]
    ELSE IF w = 2 THEN (s[1] % 32) * 64 + (s[2] % 64)
    ELSE IF w = 3 THEN (s[1] % 16) * 4096 + (s[2] % 64) * 64 + (s[3] % 64)
    ELSE (s[1] % 8) * 262144 + (s[2] % 64) * 4096 + (s[3] % 64) * 64 + (s[4] % 64)

\* Result<char, Vec<u8>> inside the io::Result of parse_utf8_char.
Utf8Ok(ch, u) == [st |-> "ok", ok |-> TRUE, ch |-> ch, bytes |-> << >>, used |-> u]

Utf8Err(v, u) == [st |-> "ok", ok |-> FALSE, ch |-> 0, bytes |-> v, used |-> u]

Utf8Block == [st |-> "block", ok |-> FALSE, ch |-> 0, bytes |-> << >>, used |-> 0]

\* The loop of parse_utf8_char giving up one byte early (len >= 3).
RECURSIVE Utf8Loop_Short(_, _, _)
Utf8Loop_Short(bytes, iter, u) ==
    IF u + 1 > Len(iter) THEN Utf8Block
    ELSE LET next == iter[u + 1] IN
         IF next \in Byte
         THEN LET pushed == Append(bytes, next) IN
              IF IsValidUtf8(pushed) THEN Utf8Ok(FirstChar(pushed), u + 1)
              ELSE IF Len(pushed) >= 3 THEN Utf8Err(pushed, u + 1)
              ELSE Utf8Loop_Short(pushed, iter, u + 1)
         ELSE Utf8Err(bytes, u + 1)

\* The loop of parse_utf8_char giving up one byte late (len >= 5).
RECURSIVE Utf8Loop_Long(_, _, _)
Utf8Loop_Long(bytes, iter, u) ==
    IF u + 1 > Len(iter) THEN Utf8Block
    ELSE LET next == iter[u + 1] IN
         IF next \in Byte
         THEN LET pushed == Append(bytes, next) IN
              IF IsValidUtf8(pushed) THEN Utf8Ok(FirstChar(pushed), u + 1)
              ELSE IF Len(pushed) >= 5 THEN Utf8Err(pushed, u + 1)
              ELSE Utf8Loop_Long(pushed, iter, u + 1)
         ELSE Utf8Err(bytes, u + 1)

\* The loop of parse_utf8_char; u items of iter are already consumed.
RECURSIVE Utf8Loop(_, _, _)
Utf8Loop(bytes, iter, u) ==
    IF u + 1 > Len(iter) THEN Utf8Block
    ELSE LET next == iter[u + 1] IN
         IF next \in Byte
         THEN LET pushed == Append(bytes, next) IN
              IF IsValidUtf8(pushed) THEN Utf8Ok(FirstChar(pushed), u + 1)
              ELSE IF Len(pushed) >= 4 THEN Utf8Err(pushed, u + 1)
              ELSE Utf8Loop(pushed, iter, u + 1)
         ELSE Utf8Err(bytes, u + 1)

parse_utf8_char(c, iter, u) ==
    IF c < 128 THEN Utf8Ok(c, u)
    ELSE Utf8Loop(<<c>>, iter, u)

\* ------------------------------------------------------------------ CSI
\* str::split(';'): the pieces of buf between semicolons (59).
RECURSIVE SplitSemi(_)
SplitSemi(s) ==
    IF \A k \in 1..Len(s) : s[k] # 59 THEN <<s>>
    ELSE LET k == CHOOSE j \in 1..Len(s) :
                     s[j] = 59 /\ \A h \in 1..(j - 1) : s[h] # 59
         IN  <<SubSeq(s, 1, k - 1)>> \o SplitSemi(SubSeq(s, k + 1, Len(s)))

RECURSIVE DigitsValue(_)
DigitsValue(s) ==
    IF s = << >> THEN 0
    ELSE 10 * DigitsValue(SubSeq(s, 1, Len(s) - 1)) + (s[Len(s)] - 48)

\* str::parse::<u8>(): the value, or 256 for Err (empty, a lone sign, a
\* non-digit, or a value that does not fit in a u8). A leading '+' (43) is
\* accepted.
ParseU8(s) ==
    LET digits == IF Len(s) > 0 /\ s[1] = 43 THEN Tail(s) ELSE s IN
    IF digits = << >> THEN 256
    ELSE IF \E k \in 1..Len(digits) : digits[k] < 48 \/ digits[k] > 57 THEN 256
    ELSE IF DigitsValue(digits) > 255 THEN 256
    ELSE DigitsValue(digits)

\* u8 addition and subtraction, wrapping at the width of the type.
U8Add(a, b) == (a + b) % 256

U8Sub(a, b) == (a - b + 256) % 256

\* match nums[0] with the last function-key arm two values wider (23..=26).
TildeKey_Wide(buf, v) ==
    IF v \in {1, 7} THEN Key0("Home")
    ELSE IF v = 2 THEN Key0("Insert")
    ELSE IF v = 3 THEN Key0("Delete")
    ELSE IF v \in {4, 8} THEN Key0("End")
    ELSE IF v = 5 THEN Key0("PageUp")
    ELSE IF v = 6 THEN Key0("PageDown")
    ELSE IF v \in 11..15 THEN KeyN("F", U8Sub(v, 10))
    ELSE IF v \in 17..21 THEN KeyN("F", U8Sub(v, 11))
    ELSE IF v \in 23..26 THEN KeyN("F", U8Sub(v, 12))
    ELSE Other(<<ESC, 91>> \o buf \o <<v>>)

\* match nums[0] of parse_csi, for the single parameter v of "Esc [ buf ~".
TildeKey(buf, v) ==
    IF v \in {1, 7} THEN Key0("Home")
    ELSE IF v = 2 THEN Key0("Insert")
    ELSE IF v = 3 THEN Key0("Delete")
    ELSE IF v \in {4, 8} THEN Key0("End")
    ELSE IF v = 5 THEN Key0("PageUp")
    ELSE IF v = 6 THEN Key0("PageDown")
    ELSE IF v \in 11..15 THEN KeyN("F", U8Sub(v, 10))
    ELSE IF v \in 17..21 THEN KeyN("F", U8Sub(v, 11))
    ELSE IF v \in 23..24 THEN KeyN("F", U8Sub(v, 12))
    ELSE Other(<<ESC, 91>> \o buf \o <<v>>)

\* match c of parse_csi: the final byte c after the parameter bytes buf.
CsiFinal(buf, c, u) ==
    IF c = 126
    THEN IF ~IsValidUtf8(buf) THEN Panic(u)
         ELSE LET strs == SplitSemi(buf) IN
              IF \E k \in 1..Len(strs) : ParseU8(strs[k]) = 256 THEN Panic(u)
              ELSE IF Len(strs) = 0 \/ Len(strs) > 1
                   THEN Ok(Other(<<ESC, 91>> \o buf), u)
                   ELSE Ok(TildeKey(buf, ParseU8(strs[1])), u)
    ELSE Ok(Other(<<ESC, 91>> \o buf \o <<c>>), u)

\* The numbered escape code of parse_csi: read up to the final byte (64..126),
\* unwrapping every item.
RECURSIVE CsiLoop(_, _, _)
CsiLoop(buf, iter, u) ==
    IF u + 1 > Len(iter) THEN Block
    ELSE LET c == iter[u + 1] IN
         IF c \notin Byte THEN Panic(u + 1)
         ELSE IF ~(c >= 64 /\ c <= 126) THEN CsiLoop(Append(buf, c), iter, u + 1)
         ELSE CsiFinal(buf, c, u + 1)

\* Esc [ [ and one more item.
CsiLinux(iter, u) ==
    IF u + 1 > Len(iter) THEN Block
    ELSE LET val == iter[u + 1] IN
         IF val \in 65..69 THEN Ok(KeyN("F", U8Sub(U8Add(1, val), 65)), u + 1)
         ELSE IF val \in Byte THEN Ok(Other(<<ESC, 91, 91, val>>), u + 1)
         ELSE Ok(Other(<<ESC, 91, 91>>), u + 1)

\* parse_csi, called with "Esc [" (u items of iter) already consumed.
parse_csi(iter, u) ==
    IF u + 1 > Len(iter) THEN Block
    ELSE LET c == iter[u + 1] IN
         IF c = 91 THEN CsiLinux(iter, u + 1)
         ELSE IF c = 65 THEN Ok(Key0("Up"), u + 1)
         ELSE IF c = 66 THEN Ok(Key0("Down"), u + 1)
         ELSE IF c = 67 THEN Ok(Key0("Right"), u + 1)
         ELSE IF c = 68 THEN Ok(Key0("Left"), u + 1)
         ELSE IF c = 70 THEN Ok(Key0("End"), u + 1)
         ELSE IF c = 72 THEN Ok(Key0("Home"), u + 1)
         ELSE IF c = 90 THEN Ok(Key0("BackTab"), u + 1)
         ELSE IF c \in 48..57 THEN CsiLoop(<<c>>, iter, u + 1)
         ELSE IF c \in Byte THEN Ok(Other(<<ESC, 91, c>>), u + 1)
         ELSE Ok(Other(<<ESC, 91>>), u + 1)

\* ------------------------------------------------------------------ parse_key
\* Esc O with the function-key number counted from 0.
ParseSS3_FromZero(iter, u) ==
    IF u + 1 > Len(iter) THEN Block
    ELSE LET val == iter[u + 1] IN
         IF val \in 80..83 THEN Ok(KeyN("F", val - 80), u + 1)
         ELSE IF val \in Byte THEN Ok(Other(<<ESC, 79, val>>), u + 1)
         ELSE Ok(Other(<<ESC, 79>>), u + 1)

\* Esc O and one more item.
ParseSS3(iter, u) ==
    IF u + 1 > Len(iter) THEN Block
    ELSE LET val == iter[u + 1] IN
         IF val \in 80..83 THEN Ok(KeyN("F", U8Sub(U8Add(1, val), 80)), u + 1)
         ELSE IF val \in Byte THEN Ok(Other(<<ESC, 79, val>>), u + 1)
         ELSE Ok(Other(<<ESC, 79>>), u + 1)

\* The Esc arm of parse_key.
ParseEsc(iter) ==
    IF Len(iter) < 1 THEN Block
    ELSE LET c == iter[1] IN
         IF c = 91 THEN parse_csi(iter, 1)
         ELSE IF c = 79 THEN ParseSS3(iter, 1)
         ELSE IF c \in Byte
              THEN LET r == parse_utf8_char(c, iter, 1) IN
                   IF r.st = "block" THEN Block
                   ELSE IF r.ok THEN Ok(KeyN("Alt", r.ch), r.used)
                   ELSE Ok(Other(r.bytes), r.used)
         ELSE IF c = ErrItem THEN IoErr(1)
         ELSE Ok(Key0("Esc"), 1)

\* The arms of parse_key with the Ctrl ranges matched first.
ParsePlain_CtrlFirst(item, iter) ==
    IF item \in 1..26 THEN Ok(KeyN("Ctrl", item - 1 + 97), 0)
    ELSE IF item \in 28..31 THEN Ok(KeyN("Ctrl", item - 28 + 52), 0)
    ELSE IF item \in {10, 13} THEN Ok(KeyN("Char", 13), 0)
    ELSE IF item = 9 THEN Ok(KeyN("Char", 9), 0)
    ELSE IF item = 8 THEN Ok(Key0("Backspace"), 0)
    ELSE IF item = 127 THEN Ok(Key0("Delete"), 0)
    ELSE IF item = 0 THEN Ok(Key0("EOF"), 0)
    ELSE LET r == parse_utf8_char(item, iter, 0) IN
         IF r.st = "block" THEN Block
         ELSE IF r.ok THEN Ok(KeyN("Char", r.ch), r.used)
         ELSE Ok(Other(r.bytes), r.used)

\* The arms of parse_key for a leading byte other than Esc, in match order.
ParsePlain(item, iter) ==
    IF item \in {10, 13} THEN Ok(KeyN("Char", 13), 0)
    ELSE IF item = 9 THEN Ok(KeyN("Char", 9), 0)
    ELSE IF item = 8 THEN Ok(Key0("Backspace"), 0)
    ELSE IF item = 127 THEN Ok(Key0("Delete"), 0)
    ELSE IF item \in 1..26 THEN Ok(KeyN("Ctrl", item - 1 + 97), 0)
    ELSE IF item \in 28..31 THEN Ok(KeyN("Ctrl", item - 28 + 52), 0)
    ELSE IF item = 0 THEN Ok(Key0("EOF"), 0)
    ELSE LET r == parse_utf8_char(item, iter, 0) IN
         IF r.st = "block" THEN Block
         ELSE IF r.ok THEN Ok(KeyN("Char", r.ch), r.used)
         ELSE Ok(Other(r.bytes), r.used)

parse_key(item, iter) ==
    IF item = ESC THEN ParseEsc(iter) ELSE ParsePlain(item, iter)

\* ------------------------------------------------------------------ state
VARIABLES
    term,       \* the terminal's mode: the set of local flags that are set
    orig_term,  \* Getch.orig_term
    phase,      \* "none", "active", "panicking", "dropped", "aborted"
    restores,   \* how often Drop has written orig_term back, for this session
    captured,   \* the mode the terminal had when this session was acquired
    keyboard,   \* which of the input alphabets the input source delivers
    platform,   \* the build: "unix" (not windows) or "windows"
    tty,        \* standard input is a terminal: the mode calls succeed
    phase2,     \* a second session on the same terminal: "none", "active",
                \* "dropped"
    orig_term2, \* the second session's Getch.orig_term
    leftover2,  \* the second session's Getch.leftover
    leftover,   \* Getch.leftover
    pc,         \* "idle": between calls; "reading": inside getch, waiting in
                \* source.bytes(); "returned": getch has handed back res
    mode,       \* how the current or last getch call got its first byte
    item,       \* the first byte handed to parse_key in that call
    opt,        \* buf[1] of that call's bulk read
    feed,       \* the items source.bytes() has delivered in that call
    res,        \* what the last completed getch call returned
    after_esc   \* the call before this one was a 1-byte read of Esc

vars == <<term, orig_term, phase, restores, captured, keyboard, platform, tty,
          phase2, orig_term2, leftover2, leftover, pc, mode, item, opt, feed,
          res, after_esc>>

\* What no operation of a session changes: the input alphabet, the build,
\* the kind of standard input, and the other session.
env == <<keyboard, platform, tty, phase2, orig_term2, leftover2>>

session == <<term, orig_term, restores, captured, env>>

decoder == <<leftover, pc, mode, item, opt, feed, res, after_esc>>

\* ------------------------------------------------------------------ terminal
Flags == {"ICANON", "ISIG", "ECHO", "IEXTEN"}

NoTerm == {"unset"}

\* The input-mode bits of a console (windows build).
ConsoleFlags == {"ENABLE_PROCESSED_INPUT", "ENABLE_LINE_INPUT",
                 "ENABLE_ECHO_INPUT", "ENABLE_MOUSE_INPUT",
                 "ENABLE_VIRTUAL_TERMINAL_INPUT"}

\* The modes a terminal of the build can be in.
ModesOf(p) == IF p = "unix" THEN SUBSET Flags ELSE SUBSET ConsoleFlags

\* The shape of the state: struct Getch, the terminal and the call in progress.
TypeOK ==
    /\ platform \in {"unix", "windows"}
    /\ tty \in BOOLEAN
    /\ term \in ModesOf(platform)
    /\ orig_term \in ModesOf(platform) \cup {NoTerm}
    /\ captured \in ModesOf(platform) \cup {NoTerm}
    /\ phase \in {"none", "active", "panicking", "dropped", "aborted",
                 "failed"}
    /\ phase2 \in {"none", "active", "dropped"}
    /\ orig_term2 \in ModesOf(platform) \cup {NoTerm}
    /\ leftover2 \in Byte \cup {NoByte}
    /\ restores \in 0..1
    /\ keyboard \in {"ascii", "csi", "utf8", "life"}
    /\ leftover \in Byte \cup {NoByte}
    /\ pc \in {"idle", "reading", "returned"}
    /\ mode \in {"none", "leftover", "read0", "readerr", "read1", "read2"}
    /\ item \in Byte \cup {NoByte}
    /\ opt \in Byte \cup {NoByte}
    /\ feed \in Seq(Byte \cup {NoneItem, ErrItem})
    /\ Len(feed) <= MaxFeed
    /\ res.st \in {"none", "ok", "err", "panic"}
    /\ after_esc \in BOOLEAN
\* raw_termios of Getch::new
RawOf(m) == ((m \ {"ICANON"}) \ {"ISIG"}) \ {"ECHO"}

\* ------------------------------------------------------------------ input
\* Every ASCII byte but Esc.
AsciiBytes == (0..127) \ {ESC}

\* Esc, '[', 'O', the final bytes of the key tables, the digits, ';', ' ',
\* 'a', '~' and one non-ASCII byte.
CsiBytes == {ESC, 91, 79, 126, 59, 32, 97, 195} \cup (65..70) \cup {72, 90}
            \cup (80..83) \cup (48..57)

\* Esc, 'a', and the bytes of U+00E9 (195 169), U+20A9 (226 130 169) and
\* U+1F0A9 (240 159 130 169).
Utf8Bytes == {ESC, 97, 195, 169, 226, 130, 240, 159}

\* Esc, '[' and '1'.
LifeBytes == {ESC, 91, 49}

Alphabet(k) ==
    IF k = "ascii" THEN AsciiBytes
    ELSE IF k = "csi" THEN CsiBytes
    ELSE IF k = "utf8" THEN Utf8Bytes
    ELSE LifeBytes

\* ------------------------------------------------------------------ getch
\* The iterator without buf[1] chained in front of source.bytes().
IterOf_NoChain(m, op, fd) == fd

\* The iterator parse_key reads from: buf[1] first after a 2-byte read.
IterOf(m, op, fd) == IF m = "read2" THEN <<op>> \o fd ELSE fd

\* The second byte of the bulk read thrown away.
StoreLeftover_Dropped(m, op, r) == NoByte

\* buf[1] put into the slot whether or not parse_key took it.
StoreLeftover_Always(m, op, r) == IF m = "read2" THEN op ELSE NoByte

\* self.leftover.replace(option_iter.next()): buf[1] if parse_key did not
\* take it. A panic unwinds before the replace.
StoreLeftover(m, op, r) ==
    IF m = "read2" /\ r.st # "panic" /\ r.used = 0 THEN op ELSE NoByte

\* parse_key on what the source has delivered so far; the call returns, or
\* waits for the next item.
Decode(m, it, op, fd) ==
    LET r == parse_key(it, IterOf(m, op, fd)) IN
    /\ mode' = m
    /\ item' = it
    /\ opt' = op
    /\ feed' = fd
    /\ after_esc' = after_esc
    /\ IF r.st = "block"
       THEN /\ pc' = "reading"
            /\ res' = NoRes
            /\ leftover' = NoByte
            /\ phase' = phase
       ELSE /\ pc' = "returned"
            /\ res' = r
            /\ leftover' = StoreLeftover(m, op, r)
            /\ phase' = IF r.st = "panic" THEN "panicking" ELSE phase

\* getch returns r without calling parse_key.
Return(m, it, r) ==
    /\ mode' = m
    /\ item' = it
    /\ opt' = NoByte
    /\ feed' = << >>
    /\ after_esc' = after_esc
    /\ pc' = "returned"
    /\ res' = r
    /\ leftover' = NoByte
    /\ phase' = phase

CanCall == phase = "active" /\ pc = "idle"

\* A leftover byte is held: use it, read nothing in bulk.
GetchLeftover ==
    /\ CanCall
    /\ leftover # NoByte
    /\ Decode("leftover", leftover, NoByte, << >>)
    /\ UNCHANGED session

\* Ok(0) answered with the null-byte key.
GetchRead0_EOF ==
    /\ CanCall
    /\ leftover = NoByte
    /\ Return("read0", NoByte, Ok(Key0("EOF"), 0))
    /\ UNCHANGED session

\* source.read(&mut buf) returns Ok(0).
GetchRead0 ==
    /\ CanCall
    /\ leftover = NoByte
    /\ Return("read0", NoByte, Ok(KeyN("Ctrl", 122), 0))
    /\ UNCHANGED session

\* source.read(&mut buf) returns Err(e).
GetchReadErr ==
    /\ CanCall
    /\ leftover = NoByte
    /\ Return("readerr", NoByte, IoErr(0))
    /\ UNCHANGED session

\* Ok(1) without the arm for a lone Esc: every byte goes to parse_key.
GetchRead1_NoShortcut ==
    /\ CanCall
    /\ leftover = NoByte
    /\ \E b \in Alphabet(keyboard) : Decode("read1", b, NoByte, << >>)
    /\ UNCHANGED session

\* source.read(&mut buf) returns Ok(1).
GetchRead1 ==
    /\ CanCall
    /\ leftover = NoByte
    /\ \E b \in Alphabet(keyboard) :
          IF b = ESC
          THEN Return("read1", b, Ok(Key0("Esc"), 0))
          ELSE Decode("read1", b, NoByte, << >>)
    /\ UNCHANGED session

\* source.read(&mut buf) returns Ok(2).
GetchRead2 ==
    /\ CanCall
    /\ leftover = NoByte
    /\ \E b0 \in Alphabet(keyboard), b1 \in Alphabet(keyboard) :
          Decode("read2", b0, b1, << >>)
    /\ UNCHANGED session

\* iter.next() on source.bytes() returns: a byte, None or Some(Err(e)).
SourceNext ==
    /\ phase = "active"
    /\ pc = "reading"
    /\ Len(feed) < MaxFeed
    /\ \E x \in Alphabet(keyboard) \cup {NoneItem, ErrItem} :
          Decode(mode, item, opt, Append(feed, x))
    /\ UNCHANGED session

\* The caller's loop takes the result and comes back for the next key.
Loop ==
    /\ phase = "active"
    /\ pc = "returned"
    /\ pc' = "idle"
    /\ mode' = "none"
    /\ item' = NoByte
    /\ opt' = NoByte
    /\ feed' = << >>
    /\ res' = NoRes
    /\ after_esc' = (mode = "read1" /\ item = ESC)
    /\ UNCHANGED <<leftover, phase>>
    /\ UNCHANGED session

Getch ==
    \/ GetchLeftover
    \/ GetchRead0
    \/ GetchReadErr
    \/ GetchRead1
    \/ GetchRead2
    \/ SourceNext
    \/ Loop

\* ------------------------------------------------------------------ session
Fresh ==
    /\ leftover' = NoByte
    /\ pc' = "idle"
    /\ mode' = "none"
    /\ item' = NoByte
    /\ opt' = NoByte
    /\ feed' = << >>
    /\ res' = NoRes
    /\ after_esc' = FALSE

\* Getch::new taking the snapshot after raw mode is applied.
New_SnapshotAfterRaw ==
    /\ platform = "unix"
    /\ tty
    /\ phase \in {"none", "dropped"}
    /\ orig_term' = RawOf(term)
    /\ captured' = term
    /\ term' = RawOf(term)
    /\ phase' = "active"
    /\ restores' = 0
    /\ Fresh
    /\ UNCHANGED env

\* Getch::new (not windows)
New ==
    /\ platform = "unix"
    /\ tty
    /\ phase \in {"none", "dropped"}
    /\ orig_term' = term
    /\ captured' = term
    /\ term' = RawOf(term)
    /\ phase' = "active"
    /\ restores' = 0
    /\ Fresh
    /\ UNCHANGED env

\* tcsetattr(&stdin, TCSADRAIN, &self.orig_term)
Restore ==
    /\ platform = "unix"
    /\ term' = orig_term
    /\ restores' = restores + 1
    /\ phase' = "dropped"
    /\ UNCHANGED <<orig_term, captured, env>>
    /\ UNCHANGED decoder

\* The session goes out of scope.
Drop ==
    /\ phase = "active"
    /\ pc \in {"idle", "returned"}
    /\ Restore

\* A panic inside getch unwinds through the session's owner: Drop runs.
Unwind ==
    /\ phase = "panicking"
    /\ Restore

\* With panic = "abort" the process ends without running Drop.
Abort ==
    /\ phase = "panicking"
    /\ phase' = "aborted"
    /\ UNCHANGED session
    /\ UNCHANGED decoder

\* Getch::new (not windows) off a terminal: tcgetattr(&stdin).unwrap() panics
\* and no value of type Getch comes into being.
NewPanics ==
    /\ platform = "unix"
    /\ ~tty
    /\ phase \in {"none", "dropped"}
    /\ phase' = "failed"
    /\ UNCHANGED session
    /\ UNCHANGED decoder

\* Getch::new (windows) that leaves the console's other mode bits as they
\* were.
NewWindows_KeepsBits ==
    /\ platform = "windows"
    /\ phase \in {"none", "dropped"}
    /\ IF tty
       THEN /\ orig_term' = term
            /\ captured' = term
            /\ term' = (term \ {"ENABLE_PROCESSED_INPUT", "ENABLE_LINE_INPUT",
                                 "ENABLE_ECHO_INPUT"})
                        \cup {"ENABLE_VIRTUAL_TERMINAL_INPUT"}
       ELSE /\ orig_term' = {}
            /\ captured' = NoTerm
            /\ term' = term
    /\ phase' = "active"
    /\ restores' = 0
    /\ Fresh
    /\ UNCHANGED env

\* Getch::new (windows): console_mode starts as 0; if GetConsoleMode succeeds
\* it holds the console's mode and SetConsoleMode makes the mode exactly
\* ENABLE_VIRTUAL_TERMINAL_INPUT; either way a Getch is returned.
NewWindows ==
    /\ platform = "windows"
    /\ phase \in {"none", "dropped"}
    /\ IF tty
       THEN /\ orig_term' = term
            /\ captured' = term
            /\ term' = {"ENABLE_VIRTUAL_TERMINAL_INPUT"}
       ELSE /\ orig_term' = {}
            /\ captured' = NoTerm
            /\ term' = term
    /\ phase' = "active"
    /\ restores' = 0
    /\ Fresh
    /\ UNCHANGED env

\* SetConsoleMode(input_handle, self.orig_term), its result ignored.
RestoreWindows ==
    /\ platform = "windows"
    /\ term' = IF tty THEN orig_term ELSE term
    /\ restores' = restores + 1
    /\ phase' = "dropped"
    /\ UNCHANGED <<orig_term, captured, env>>
    /\ UNCHANGED decoder

DropWindows ==
    /\ phase = "active"
    /\ pc \in {"idle", "returned"}
    /\ RestoreWindows

UnwindWindows ==
    /\ phase = "panicking"
    /\ RestoreWindows

\* What the second session's operations leave alone.
first == <<orig_term, phase, restores, captured, keyboard, platform, tty>>

\* A second Getch::new that takes over the first session's snapshot.
New2_SharedSnapshot ==
    /\ platform = "unix"
    /\ tty
    /\ phase = "active"
    /\ phase2 \in {"none", "dropped"}
    /\ orig_term2' = orig_term
    /\ term' = RawOf(term)
    /\ phase2' = "active"
    /\ leftover2' = NoByte
    /\ UNCHANGED first
    /\ UNCHANGED decoder

\* Getch::new (not windows) called again while the first session is active.
New2 ==
    /\ platform = "unix"
    /\ tty
    /\ phase = "active"
    /\ phase2 \in {"none", "dropped"}
    /\ orig_term2' = term
    /\ term' = RawOf(term)
    /\ phase2' = "active"
    /\ leftover2' = NoByte
    /\ UNCHANGED first
    /\ UNCHANGED decoder

\* The second session goes out of scope.
Drop2 ==
    /\ platform = "unix"
    /\ phase2 = "active"
    /\ term' = orig_term2
    /\ phase2' = "dropped"
    /\ UNCHANGED <<orig_term2, leftover2>>
    /\ UNCHANGED first
    /\ UNCHANGED decoder

\* Getch::new for the first session: no other session is active.
NewFirst ==
    /\ phase2 # "active"
    /\ New

EchoIdle == pc \in {"idle", "returned"} /\ phase \in {"none", "active", "dropped"}

enable_echo_input ==
    /\ EchoIdle
    /\ term' = term \cup {"ECHO"}
    /\ UNCHANGED <<orig_term, phase, restores, captured, env>>
    /\ UNCHANGED decoder

disable_echo_input ==
    /\ EchoIdle
    /\ term' = term \ {"ECHO"}
    /\ UNCHANGED <<orig_term, phase, restores, captured, env>>
    /\ UNCHANGED decoder

\* ------------------------------------------------------------------ specs
\* The not-windows build on a terminal, and no second session.
OneSession ==
    /\ platform = "unix"
    /\ tty = TRUE
    /\ phase2 = "none"
    /\ orig_term2 = NoTerm
    /\ leftover2 = NoByte

Idle ==
    /\ leftover = NoByte
    /\ pc = "idle"
    /\ mode = "none"
    /\ item = NoByte
    /\ opt = NoByte
    /\ feed = << >>
    /\ res = NoRes
    /\ after_esc = FALSE

\* The decoder on a session that Getch::new has just returned.
Init ==
    /\ keyboard \in {"ascii", "csi", "utf8"}
    /\ orig_term = Flags
    /\ captured = Flags
    /\ term = RawOf(Flags)
    /\ phase = "active"
    /\ restores = 0
    /\ OneSession
    /\ Idle

Next == Getch

Spec == Init /\ [][Next]_vars

\* The whole life of sessions on a terminal in any mode.
InitLife ==
    /\ keyboard = "life"
    /\ term \in SUBSET Flags
    /\ orig_term = NoTerm
    /\ captured = NoTerm
    /\ phase = "none"
    /\ restores = 0
    /\ OneSession
    /\ Idle

NextLife ==
    \/ New
    \/ Getch
    \/ Drop
    \/ Unwind
    \/ Abort
    \/ enable_echo_input
    \/ disable_echo_input

SpecLife == InitLife /\ [][NextLife]_vars

\* Either build, on a terminal or off one.
InitBuilds ==
    /\ keyboard = "life"
    /\ platform \in {"unix", "windows"}
    /\ tty \in BOOLEAN
    /\ term \in ModesOf(platform)
    /\ orig_term = NoTerm
    /\ captured = NoTerm
    /\ phase = "none"
    /\ restores = 0
    /\ phase2 = "none"
    /\ orig_term2 = NoTerm
    /\ leftover2 = NoByte
    /\ Idle

NextBuilds ==
    \/ New
    \/ NewPanics
    \/ NewWindows
    \/ Getch
    \/ Drop
    \/ DropWindows
    \/ Unwind
    \/ UnwindWindows
    \/ Abort

SpecBuilds == InitBuilds /\ [][NextBuilds]_vars

\* Two sessions on one terminal (not-windows build): the first, and a second
\* acquired while the first is active; they go out of scope in either order.
NextTwo ==
    \/ NewFirst
    \/ New2
    \/ Drop
    \/ Drop2

SpecTwo == InitLife /\ [][NextTwo]_vars

\* ------------------------------------------------------------------ observers
Returned == pc = "returned"

\* The call went through parse_key (and not around it).
Parsed == Returned /\ mode \in {"leftover", "read1", "read2"}

\* The iterator items parse_key pulled in the last call, and the bytes among
\* them.
Pulled == SubSeq(IterOf(mode, opt, feed), 1, res.used)

IsByte(x) == x \in Byte

PulledBytes == SelectSeq(Pulled, IsByte)

\* Every byte the last call's decoder consumed, in order.
Consumed == IF item = NoByte THEN << >> ELSE <<item>> \o PulledBytes

\* Some read attempt of the last call yielded an I/O error.
SawError ==
    \/ mode = "readerr"
    \/ \E k \in 1..Len(feed) : feed[k] = ErrItem

\* The last item the source delivered in the last call, if any.
LastItem == IF feed = << >> THEN NoByte ELSE feed[Len(feed)]

\* ------------------------------------------------------------------ claims

\* C1: over acquire -> getch calls that return a key or an I/O error -> drop,
\* the snapshot orig_term is the mode captured at acquire and is never
\* modified, the drop writes exactly that mode to the terminal, and it does
\* so exactly once.
C1_RestoredOnce ==
    /\ [](phase \in {"active", "dropped"} => orig_term = captured)
    /\ [](phase = "active" => restores = 0)
    /\ [](phase = "dropped" => restores = 1)
    /\ [][phase = "active" => orig_term' = orig_term]_vars
    /\ [][(phase = "active" /\ phase' = "dropped")
            => (term' = captured /\ restores' = 1)]_vars

\* A session dropped after a read that returned an I/O error, on a terminal
\* whose mode the acquisition had changed.
C1_Witness ==
    /\ phase = "dropped"
    /\ res.st = "err"
    /\ restores = 1
    /\ term = captured
    /\ RawOf(captured) # captured

\* C2: after a getch call that returns a key, the bytes the call consumed are
\* the bytes the key stands for (an Other key carries exactly them) plus the
\* leftover byte: none dropped, duplicated or invented.
C2_BytesConserved ==
    (Parsed /\ res.st = "ok") =>
        /\ res.key.tag = "Other" => res.key.bytes = Consumed
        /\ leftover = (IF mode = "read2" /\ res.used = 0 THEN opt ELSE NoByte)

\* C3: the second byte of a 2-byte read that the decoder did not take is the
\* leftover, stays the leftover until the next call, and is the byte that call
\* decodes first, ahead of anything it reads from the source.
C3_LeftoverFirst ==
    /\ []((Parsed /\ mode = "read2" /\ res.st \in {"ok", "err"} /\ res.used = 0)
            => leftover = opt)
    /\ [][(pc = "returned" /\ pc' = "idle") => leftover' = leftover]_vars
    /\ [][(pc = "idle" /\ leftover # NoByte)
            => (mode' = "leftover" /\ item' = leftover /\ leftover' = NoByte
                /\ feed' = << >>)]_vars

\* The carried byte 'B' of a 2-byte read decoded by the next call.
C3_Witness ==
    /\ Returned
    /\ mode = "leftover"
    /\ item = 66
    /\ res = Ok(KeyN("Char", 66), 0)

\* C4: whatever bytes arrive, a getch call none of whose reads failed returns
\* a key, and the session can be used for the next call.
C4_NeverCrashes ==
    (Returned /\ ~SawError) => (res.st = "ok" /\ phase = "active")

\* C5: a getch call one of whose read attempts yielded an I/O error returns
\* that error, not a key.
C5_ErrorPropagates ==
    (Returned /\ SawError) => res.st = "err"

\* C6 (as claimed): a bulk read of 0 bytes returns the key a 0x00 byte decodes
\* to, and leaves the leftover slot empty.
C6_ZeroReadIsEOF ==
    (Returned /\ mode = "read0") =>
        (res.st = "ok" /\ res.key = parse_key(0, << >>).key /\ leftover = NoByte)

\* C6 (amended): a bulk read of 0 bytes returns Ctrl('z'), the key a 0x1A byte
\* decodes to and not the one a 0x00 byte decodes to; it is not an error, and
\* the leftover slot stays empty.
C6_ZeroReadIsCtrlZ ==
    (Returned /\ mode = "read0") =>
        /\ res.st = "ok"
        /\ res.key = KeyN("Ctrl", 122)
        /\ res.key = parse_key(26, << >>).key
        /\ res.key # parse_key(0, << >>).key
        /\ leftover = NoByte

\* A call whose bulk read returned 0 bytes.
C6_Witness ==
    /\ Returned
    /\ mode = "read0"
    /\ res.key.tag = "Ctrl"

\* The key the claim gives for the single parameter n of Esc [ n ~.
C7_Expected(n) ==
    IF n \in {1, 7} THEN Key0("Home")
    ELSE IF n = 2 THEN Key0("Insert")
    ELSE IF n = 3 THEN Key0("Delete")
    ELSE IF n \in {4, 8} THEN Key0("End")
    ELSE IF n = 5 THEN Key0("PageUp")
    ELSE IF n = 6 THEN Key0("PageDown")
    ELSE IF n \in 11..15 THEN KeyN("F", n - 10)
    ELSE IF n \in 17..21 THEN KeyN("F", n - 11)
    ELSE IF n \in 23..24 THEN KeyN("F", n - 12)
    ELSE Key0("Other")

\* C7: Esc [ <digits> ~ decodes by the table of the single parameter; every
\* value outside the table, and every other final byte, gives Other.
C7_TildeTable ==
    (Parsed /\ ~SawError /\ Len(Consumed) >= 4
        /\ Consumed[1] = ESC /\ Consumed[2] = 91
        /\ \A k \in 3..(Len(Consumed) - 1) : Consumed[k] \in 48..57
        /\ Consumed[Len(Consumed)] \in 64..126) =>
        LET n == DigitsValue(SubSeq(Consumed, 3, Len(Consumed) - 1))
            want == IF Consumed[Len(Consumed)] = 126
                    THEN C7_Expected(n) ELSE Key0("Other")
        IN  /\ res.st = "ok"
            /\ res.key.tag = want.tag
            /\ res.key.n = want.n

\* The key the claim gives for a final byte after Esc [.
C8_Final(c) ==
    IF c = 65 THEN Key0("Up")
    ELSE IF c = 66 THEN Key0("Down")
    ELSE IF c = 67 THEN Key0("Right")
    ELSE IF c = 68 THEN Key0("Left")
    ELSE IF c = 70 THEN Key0("End")
    ELSE IF c = 72 THEN Key0("Home")
    ELSE Key0("BackTab")

\* C8: with the bytes after Esc in front of the decoder, Esc [ A,B,C,D,F,H,Z
\* give Up,Down,Right,Left,End,Home,BackTab, Esc [ [ A..E give F1..F5 and
\* Esc O P..S give F1..F4, and the call pulls exactly those bytes.
C8_Parameterless ==
    (Parsed /\ item = ESC /\ IterOf(mode, opt, feed) # << >>) =>
        LET it == IterOf(mode, opt, feed) IN
        /\ (Len(it) >= 2 /\ it[1] = 91 /\ it[2] \in {65, 66, 67, 68, 70, 72, 90})
              => (res = Ok(C8_Final(it[2]), 2) /\ Len(it) = 2)
        /\ (Len(it) >= 3 /\ it[1] = 91 /\ it[2] = 91 /\ it[3] \in 65..69)
              => (res = Ok(KeyN("F", it[3] - 64), 3) /\ Len(it) = 3)
        /\ (Len(it) >= 2 /\ it[1] = 79 /\ it[2] \in 80..83)
              => (res = Ok(KeyN("F", it[2] - 79), 2) /\ Len(it) = 2)

\* Esc O S read as a 2-byte burst and one more byte.
C8_Witness ==
    /\ Returned
    /\ mode = "read2"
    /\ item = ESC
    /\ opt = 79
    /\ feed = <<83>>
    /\ res.key = KeyN("F", 4)
    /\ leftover = NoByte

\* The key the claim gives for a leading byte below 0x80 other than Esc.
C9_Expected(b) ==
    IF b \in {10, 13} THEN KeyN("Char", 13)
    ELSE IF b = 9 THEN KeyN("Char", 9)
    ELSE IF b = 8 THEN Key0("Backspace")
    ELSE IF b = 127 THEN Key0("Delete")
    ELSE IF b = 0 THEN Key0("EOF")
    ELSE IF b \in 1..26 THEN KeyN("Ctrl", 97 + (b - 1))
    ELSE IF b \in 28..31 THEN KeyN("Ctrl", 52 + (b - 28))
    ELSE KeyN("Char", b)

\* C9: a leading byte below 0x80 other than Esc is decoded alone, by the
\* claim's table; the second byte of a 2-byte read becomes the leftover.
C9_SingleByte ==
    (Parsed /\ item < 128 /\ item # ESC) =>
        /\ res = Ok(C9_Expected(item), 0)
        /\ feed = << >>
        /\ leftover = (IF mode = "read2" THEN opt ELSE NoByte)

\* 0x1C read together with 0x09: Ctrl('4'), and the tab is carried over.
C9_Witness ==
    /\ Returned
    /\ mode = "read2"
    /\ item = 28
    /\ opt = 9
    /\ res.key = KeyN("Ctrl", 52)
    /\ leftover = 9

\* Encodings and code points: U+00E9, U+20A9, U+1F0A9.
C10_Chars ==
    { <<195, 169>>, <<226, 130, 169>>, <<240, 159, 130, 169>> }

C10_CodePoint(e) ==
    IF e = <<195, 169>> THEN 233
    ELSE IF e = <<226, 130, 169>> THEN 8361
    ELSE 127145

IsPrefix(a, b) == Len(a) <= Len(b) /\ SubSeq(b, 1, Len(a)) = a

\* C10: a call that starts on the lead byte of a valid multi-byte character,
\* however the byte reached it (first of a 2-byte read, a 1-byte read, or the
\* leftover), returns Char(code point) once the character's bytes have
\* arrived, and gives up earlier only when the source ends or fails.
C10_SplitUtf8 ==
    (Parsed /\ item >= 128) =>
        \A e \in C10_Chars :
            /\ Consumed = e =>
                  (res.st = "ok" /\ res.key = KeyN("Char", C10_CodePoint(e)))
            /\ (IsPrefix(Consumed, e) /\ Consumed # e) =>
                  LastItem \in {NoneItem, ErrItem}

\* The lead byte of U+1F0A9 carried over as the leftover, the rest read live.
C10_Witness ==
    /\ Returned
    /\ mode = "leftover"
    /\ item = 240
    /\ feed = <<159, 130, 169>>
    /\ res.key = KeyN("Char", 127145)

\* C11: when capturing or applying the mode fails at acquisition (standard
\* input is not a terminal), no session comes into being: none is ever active,
\* no getch call starts or returns, and no destruction writes a mode.
C11_FailedAcquireNoSession ==
    ~tty =>
        /\ phase \in {"none", "failed"}
        /\ pc = "idle"
        /\ mode = "none"
        /\ restores = 0

\* The last call decoded "Esc [ ..." and the CSI sub-parser returned Other.
CsiOther ==
    /\ Parsed
    /\ res.st = "ok"
    /\ res.key.tag = "Other"
    /\ item = ESC
    /\ Len(Consumed) >= 2
    /\ Consumed[2] = 91

\* C12: an Other key of the CSI sub-parser carries exactly the bytes the call
\* consumed, in order: Esc, '[', the parameter bytes and the final byte, '~'
\* included.
C12_CsiOtherExact ==
    CsiOther => res.key.bytes = Consumed

\* The last call decoded Esc followed by a byte other than '[' and 'O'.
EscThenByte ==
    /\ Parsed
    /\ item = ESC
    /\ res.st = "ok"
    /\ Len(Consumed) >= 2
    /\ Consumed[2] \notin {91, 79}

\* C13: Esc followed by a byte other than '[' and 'O' gives Alt(c) when the
\* bytes after Esc are the encoding of the character c, and otherwise Other
\* with every byte the call consumed, the leading Esc included.
C13_AltOrRawBytes ==
    EscThenByte =>
        LET tail == SubSeq(Consumed, 2, Len(Consumed)) IN
        IF IsValidUtf8(tail)
        THEN res.key = KeyN("Alt", FirstChar(tail))
        ELSE res.key = Other(Consumed)

\* The current or last call has entered parse_utf8_char: its first byte is
\* matched by no earlier arm of parse_key, or it is Esc followed by a byte
\* other than '[' and 'O'.
InUtf8 ==
    /\ mode \in {"leftover", "read1", "read2"}
    /\ \/ item \in (32..255) \ {127}
       \/ /\ item = ESC
          /\ IterOf(mode, opt, feed) # << >>
          /\ IterOf(mode, opt, feed)[1] \in Byte \ {91, 79}

\* The iterator items the call has pulled so far.
Taken == IF Returned THEN Pulled ELSE IterOf(mode, opt, feed)

\* The lead byte handed to parse_utf8_char, the items it pulled after it, and
\* the bytes it has accumulated.
Utf8Lead == IF item = ESC THEN Taken[1] ELSE item

Utf8Further == IF item = ESC THEN Tail(Taken) ELSE Taken

Utf8Acc == <<Utf8Lead>> \o SelectSeq(Utf8Further, IsByte)

\* C14: parse_utf8_char pulls at most 3 items after the lead byte and none
\* after an ASCII lead; it is still waiting only while fewer than 4 bytes are
\* accumulated and they are not yet a character; it returns the character
\* exactly when the accumulated bytes encode one, and otherwise Other with
\* exactly the accumulated bytes, and then 4 bytes are accumulated or the last
\* item pulled was the end of the source (or a failed read).
C14_Utf8Terminates ==
    InUtf8 =>
        /\ Len(Utf8Further) <= 3
        /\ Utf8Lead < 128 => (Returned /\ Utf8Further = << >>)
        /\ ~Returned => (Len(Utf8Acc) < 4 /\ ~IsValidUtf8(Utf8Acc))
        /\ Returned =>
              /\ res.st = "ok"
              /\ IF IsValidUtf8(Utf8Acc)
                 THEN /\ res.key.tag \in {"Char", "Alt"}
                      /\ res.key.n = FirstChar(Utf8Acc)
                      /\ Len(Utf8Acc) = Len(Utf8Further) + 1
                 ELSE /\ res.key = Other(Utf8Acc)
                      /\ \/ Len(Utf8Acc) = 4
                         \/ Utf8Further[Len(Utf8Further)] \in {NoneItem, ErrItem}

\* A 4-byte lead and three more bytes that do not complete a character.
C14_Witness ==
    /\ Returned
    /\ mode = "read1"
    /\ item = 240
    /\ feed = <<159, 130, 97>>
    /\ res.key = Other(<<240, 159, 130, 97>>)

\* The recognised escape sequences and the key each stands for.
C15_Sequences ==
    { <<ESC, 91, c>> : c \in {65, 66, 67, 68, 70, 72, 90} }
    \cup { <<ESC, 91, 91, c>> : c \in 65..69 }
    \cup { <<ESC, 79, c>> : c \in 80..83 }
    \cup { <<ESC, 91, 48 + d, 126>> : d \in 1..8 }
    \cup { <<ESC, 91, 48 + (n \div 10), 48 + (n % 10), 126>> :
              n \in (11..15) \cup (17..21) \cup (23..24) }

C15_Key(s) ==
    IF s[2] = 79 THEN KeyN("F", s[3] - 79)
    ELSE IF Len(s) = 3 THEN C8_Final(s[3])
    ELSE IF s[3] = 91 THEN KeyN("F", s[4] - 64)
    ELSE C7_Expected(DigitsValue(SubSeq(s, 3, Len(s) - 1)))

\* Every byte delivered since the last key that was not a lone Esc from a
\* 1-byte read, and the keys returned for them.
C15_Seen ==
    (IF after_esc THEN <<ESC>> ELSE << >>)
    \o (IF item = NoByte THEN << >> ELSE <<item>>)
    \o (IF opt = NoByte THEN << >> ELSE <<opt>>)
    \o SelectSeq(feed, IsByte)

C15_Keys ==
    (IF after_esc THEN <<Key0("Esc")>> ELSE << >>) \o <<res.key>>

\* C15 (as claimed): once the bytes of a recognised escape sequence have been
\* delivered, in one burst or split at any point (a first read of Esc alone
\* included), the keys returned for them are the one key of the sequence.
C15_AnySplitSameKey ==
    (Returned /\ ~SawError) =>
        \A s \in C15_Sequences :
            C15_Seen = s => (res.st = "ok" /\ C15_Keys = <<C15_Key(s)>>)

\* C15 (amended): the same, for every split in which Esc reaches the decoder
\* together with what follows (as the first byte of a 2-byte read, or as the
\* leftover byte); a 1-byte read of Esc returns the lone Esc key at once, and
\* a '[' or 'O' that arrives after it is a key of its own.
C15_StraddleSameKey ==
    /\ (Returned /\ ~SawError /\ ~after_esc) =>
          \A s \in C15_Sequences :
              C15_Seen = s =>
                  /\ res = Ok(C15_Key(s), Len(s) - 1)
                  /\ mode \in {"read2", "leftover"}
                  /\ leftover = NoByte
    /\ (Returned /\ mode = "read1" /\ item = ESC) =>
          (res = Ok(Key0("Esc"), 0) /\ feed = << >>)
    /\ (Returned /\ after_esc /\ item \in {91, 79}) =>
          res = Ok(KeyN("Char", item), 0)

\* Esc [ 1 5 ~ with Esc carried over as the leftover byte: F5.
C15_Witness ==
    /\ Returned
    /\ mode = "leftover"
    /\ item = ESC
    /\ feed = <<91, 49, 53, 126>>
    /\ res.key = KeyN("F", 5)

\* C16: a 1-byte bulk read of Esc returns the lone Esc key without pulling
\* anything from the input, so such a call is never waiting for input; and Esc
\* taken from the leftover slot, or first of a 2-byte read, whose next item is
\* the end of input returns the lone Esc key having pulled just that item.
C16_LoneEsc ==
    /\ (mode = "read1" /\ item = ESC) =>
          /\ Returned
          /\ res = Ok(Key0("Esc"), 0)
          /\ feed = << >>
          /\ leftover = NoByte
    /\ (mode \in {"leftover", "read2"} /\ item = ESC
          /\ IterOf(mode, opt, feed) # << >>
          /\ IterOf(mode, opt, feed)[1] = NoneItem) =>
          /\ Returned
          /\ res = Ok(Key0("Esc"), 1)
          /\ Len(IterOf(mode, opt, feed)) = 1
          /\ leftover = NoByte

\* Esc from the leftover slot, then the end of input.
C16_LeftoverThenEnd ==
    /\ Returned
    /\ mode = "leftover"
    /\ item = ESC
    /\ feed = <<NoneItem>>
    /\ res.key = Key0("Esc")

\* A 1-byte bulk read of Esc.
C16_Witness ==
    /\ Returned
    /\ mode = "read1"
    /\ item = ESC
    /\ res.key = Key0("Esc")

\* The step in which Getch::new returns a session.
Acquires == phase # "active" /\ phase' = "active"

\* Canonical mode, signal generation and local echo, under either build's
\* names.
C17_RawBits == {"ICANON", "ISIG", "ECHO", "ENABLE_LINE_INPUT",
                "ENABLE_PROCESSED_INPUT", "ENABLE_ECHO_INPUT"}

\* C17 (as claimed): on a terminal, acquiring a session clears canonical mode,
\* signal generation and local echo, and every other attribute of the mode it
\* applies is that of the mode it captured.
C17_OnlyRawBitsChange ==
    [][(tty /\ Acquires) =>
          /\ orig_term' = term
          /\ term' \cap C17_RawBits = {}
          /\ term' \ C17_RawBits = term \ C17_RawBits]_vars

\* C17 (amended): that holds of the not-windows build; the windows build
\* applies the mode that is exactly ENABLE_VIRTUAL_TERMINAL_INPUT, whatever
\* mode it captured, and applies nothing when the capture fails.
C17_AcquireFrame ==
    [][Acquires =>
          IF platform = "unix"
          THEN /\ orig_term' = term
               /\ term' \cap C17_RawBits = {}
               /\ term' \ C17_RawBits = term \ C17_RawBits
          ELSE IF tty
          THEN /\ orig_term' = term
               /\ term' = {"ENABLE_VIRTUAL_TERMINAL_INPUT"}
          ELSE term' = term]_vars

\* A console that had mouse input on and virtual terminal input off, after a
\* session was acquired on it.
C17_Witness ==
    /\ platform = "windows"
    /\ phase = "active"
    /\ pc = "idle"
    /\ captured = {"ENABLE_PROCESSED_INPUT", "ENABLE_LINE_INPUT",
                   "ENABLE_ECHO_INPUT", "ENABLE_MOUSE_INPUT"}
    /\ term = {"ENABLE_VIRTUAL_TERMINAL_INPUT"}

\* The last call returned a function key.
IsF == Returned /\ res.st = "ok" /\ res.key.tag = "F"

\* C18: a function key is F(n) with 1 <= n <= 12, and n is what the formula
\* of its path gives in unbounded arithmetic, no intermediate value leaving
\* 0..255: 1 + b - 'P' after Esc O, 1 + b - 'A' after Esc [ [, and v - 10,
\* v - 11 or v - 12 for the parameter v of Esc [ v ~.
C18_FRange ==
    IsF =>
        /\ res.key.n \in 1..12
        /\ Consumed[1] = ESC
        /\ IF Consumed[2] = 79
           THEN /\ 1 + Consumed[3] <= 255
                /\ 1 + Consumed[3] - 80 = res.key.n
           ELSE IF Consumed[3] = 91
           THEN /\ 1 + Consumed[4] <= 255
                /\ 1 + Consumed[4] - 65 = res.key.n
           ELSE LET v == DigitsValue(SubSeq(Consumed, 3, Len(Consumed) - 1))
                IN  \E k \in {10, 11, 12} : v - k >= 0 /\ v - k = res.key.n

\* Esc [ 2 4 ~: F12.
C18_Witness ==
    /\ IsF
    /\ Consumed = <<ESC, 91, 50, 52, 126>>
    /\ res.key.n = 12

\* C19: the leftover slot holds a byte on return only after a 2-byte bulk
\* read whose second byte the decoder did not take, and then it holds that
\* byte; a call that starts from the leftover byte reads nothing in bulk, has
\* emptied the slot by the time it decodes, and returns with the slot empty,
\* with a key or with an I/O error.
C19_LeftoverSlot ==
    /\ (Returned /\ leftover # NoByte) =>
          (mode = "read2" /\ res.used = 0 /\ leftover = opt)
    /\ mode = "leftover" =>
          (leftover = NoByte /\ opt = NoByte /\ item # NoByte)

\* A call that started from a leftover Esc and returned an I/O error.
C19_Witness ==
    /\ Returned
    /\ mode = "leftover"
    /\ item = ESC
    /\ res.st = "err"
    /\ leftover = NoByte

\* C20: a second session is acquired while the first is active, and its
\* snapshot is the raw mode the first one applied. When the second is dropped
\* before the first, the first's drop leaves the terminal in the mode it had
\* before the first acquisition; when the first is dropped before the second,
\* the second's drop leaves it in that raw mode, which is not the original
\* mode if that had canonical mode, signals or echo on.
C20_TwoSessions ==
    /\ []((phase = "active" /\ phase2 = "active") =>
            (term = RawOf(captured) /\ orig_term2 = RawOf(captured)))
    /\ [][(phase = "active" /\ phase' = "dropped" /\ phase2 = "dropped")
            => term' = captured]_vars
    /\ [][(phase2 = "active" /\ phase2' = "dropped" /\ phase = "dropped")
            => /\ term' = RawOf(captured)
               /\ (captured # RawOf(captured) => term' # captured)]_vars

\* Both sessions dropped, the first one first: the terminal is left raw.
C20_Witness ==
    /\ phase = "dropped"
    /\ phase2 = "dropped"
    /\ captured = Flags
    /\ term = RawOf(Flags)

\* Both sessions active at once.
C20_BothActive ==
    /\ phase = "active"
    /\ phase2 = "active"

====
